---- MODULE Spec2Model ----
(***************************************************************************)
(* update_types.py: read a JSON document from input_path, take its "types" *)
(* field and write it, as text, to output_path; print the outcome.         *)
(*                                                                         *)
(* The model follows the script statement by statement.  The file system   *)
(* holds the two paths of the script.  The output file is a sequence of    *)
(* bytes; Python strings are sequences of code points drawn from a small   *)
(* alphabet, and the text layer of open(..., "w", encoding="utf-8") is     *)
(* modelled by what it does: newline translation, then UTF-8 encoding.     *)
(* The input file is held in parsed form (what its bytes decode and parse  *)
(* to), and json_load maps that form to the value or the exception that    *)
(* json.load produces.                                                     *)
(***************************************************************************)
EXTENDS Integers, Sequences, FiniteSets, TLC

\* ------------------------------------------------------------------ bounds
\* Longest "types" string of an input document.
MaxLen == 2
\* Number of consecutive runs of the script on the same file system.
MaxRuns == 2

\* --------------------------------------------------------------- constants
input_path == "C:/Users/Qbits/.gemini/antigravity/brain/b8aef8e2-6c26-4073-baeb-701e97c1f662/.system_generated/steps/135/output.txt"
output_path == "g:/cw/src/integrations/supabase/types.ts"
Paths == {input_path, output_path}

\* ------------------------------------------------------------ text and bytes
\* Code points of a Python str: a letter, line feed, carriage return, a
\* two-byte letter (U+00E9) and a lone surrogate (JSON "\ud800").
Chars == {"a", "LF", "CR", "E9", "SUR"}

\* All strings of at most n code points.
StrUpTo(n) == UNION {[1..k -> Chars] : k \in 0..n}

\* The UTF-8 encoding of one code point (a lone surrogate has none).
utf8_char(c) ==
    CASE c = "a"   -> <<97>>
      [] c = "LF"  -> <<10>>
      [] c = "CR"  -> <<13>>
      [] c = "E9"  -> <<195, 169>>
      [] OTHER     -> <<>>

\* str.encode("utf-8") raises UnicodeEncodeError on a lone surrogate.
Encodable(s) == \A i \in 1..Len(s) : s[i] # "SUR"

RECURSIVE utf8_encode(_)
utf8_encode(s) ==
    IF s = <<>> THEN <<>> ELSE utf8_char(Head(s)) \o utf8_encode(Tail(s))

\* bytes.decode("utf-8") of a well-formed byte sequence.
RECURSIVE utf8_decode(_)
utf8_decode(b) ==
    IF b = <<>> THEN <<>>
    ELSE IF b[1] = 195 /\ Len(b) >= 2 /\ b[2] = 169
         THEN <<"E9">> \o utf8_decode(SubSeq(b, 3, Len(b)))
    ELSE IF b[1] = 10 THEN <<"LF">> \o utf8_decode(Tail(b))
    ELSE IF b[1] = 13 THEN <<"CR">> \o utf8_decode(Tail(b))
    ELSE IF b[1] = 97 THEN <<"a">> \o utf8_decode(Tail(b))
    ELSE <<"?">> \o utf8_decode(Tail(b))

\* os.linesep: "\n" on POSIX, "\r\n" on Windows (the script's paths are
\* Windows paths).
LineSeps == {<<"LF">>, <<"CR", "LF">>}

\* The text layer's write-side newline translation (newline=None): every
\* "\n" of the string becomes os.linesep; nothing else changes.
RECURSIVE translate_newlines(_, _)
translate_newlines(s, sep) ==
    IF s = <<>> THEN <<>>
    ELSE (IF Head(s) = "LF" THEN sep ELSE <<Head(s)>>)
         \o translate_newlines(Tail(s), sep)

\* What f.write(s) hands to the binary layer.
text_write(s, sep) == utf8_encode(translate_newlines(s, sep))

\* ------------------------------------------------------------ Python values
\* A value held by a JSON member: its type t and, for a str, its text s.
PyStr(s) == [t |-> "str", s |-> s]
PyNone == [t |-> "NoneType", s |-> <<>>]
PyInt == [t |-> "int", s |-> <<>>]
PyList == [t |-> "list", s |-> <<>>]
PyEmptyDict == [t |-> "dict", s |-> <<>>]
\* No value: a key that the dict does not hold, a name not yet bound.
Missing == [t |-> "missing", s |-> <<>>]

NonStrValues == {PyNone, PyInt, PyList, PyEmptyDict}
TypesValues == {PyStr(s) : s \in StrUpTo(MaxLen)} \cup NonStrValues

\* The value json.load returns: its type t, its text s when a str, and its
\* items d when a dict (the keys "types" and "other", each held or Missing).
NoItems == [types |-> Missing, other |-> Missing]
Scalar(x) == [t |-> x.t, s |-> x.s, d |-> NoItems]
PyDict(types, other) == [t |-> "dict", s |-> <<>>, d |-> [types |-> types, other |-> other]]
Unbound == Scalar(Missing)

\* JSON objects: "types" absent or present with any value, another key
\* absent or present.
Objects ==
    {PyDict(tv, ov) : tv \in TypesValues \cup {Missing}, ov \in {Missing, PyInt}}

\* The input file's bytes, by what they are to the reader: not UTF-8, UTF-8
\* but not JSON, or a JSON text denoting a value.
Documents ==
    {[form |-> "not_utf8", value |-> Unbound], [form |-> "not_json", value |-> Unbound]}
    \cup {[form |-> "json", value |-> x]
            : x \in Objects \cup {Scalar(PyNone), Scalar(PyInt), Scalar(PyList),
                                  Scalar(PyStr(<<"a">>))}}

\* ------------------------------------------------------------- file system
NoDoc == [form |-> "none", value |-> Unbound]
Absent(acc) == [exists |-> FALSE, access |-> acc, doc |-> NoDoc, bytes |-> <<>>]
DocFile(d, acc) == [exists |-> TRUE, access |-> acc, doc |-> d, bytes |-> <<>>]
ByteFile(b, acc) == [exists |-> TRUE, access |-> acc, doc |-> NoDoc, bytes |-> b]

\* States of the input path before a run: missing, unreadable, or readable
\* with any document.
InputFiles ==
    {Absent("rw"), DocFile([form |-> "not_json", value |-> Unbound], "none")}
    \cup {DocFile(d, "rw") : d \in Documents}

\* States of the output path before a run: missing (creatable or not),
\* a short file, a longer file, a read-only file.
OutputFiles ==
    {Absent("rw"), Absent("none"),
     ByteFile(<<97>>, "rw"),
     ByteFile(<<97, 97, 97, 97, 97, 97, 97, 10>>, "rw"),
     ByteFile(<<97, 97, 97, 97, 97, 97, 97, 10>>, "r")}

\* "a" opens for writing at the end, creating the file but keeping its bytes.
open_a(file) == [exists |-> TRUE, access |-> file.access, doc |-> file.doc, bytes |-> file.bytes]

\* "w" opens for writing at position 0, creating the file or truncating it.
open_w(file) == ByteFile(<<>>, file.access)

\* The binary layer writes buf at position pos.
write_at(bytes, pos, buf) ==
    SubSeq(bytes, 1, pos) \o buf \o SubSeq(bytes, pos + Len(buf) + 1, Len(bytes))

\* File objects: the path and mode they were opened with, whether they are
\* open, and the position of the next write.
NoFile == [path |-> "", mode |-> "", state |-> "none", pos |-> 0]
OpenFile(p, m, at) == [path |-> p, mode |-> m, state |-> "open", pos |-> at]
Closed(h) == [h EXCEPT !.state = "closed"]

\* ---------------------------------------------------------------- exceptions
NoExc == [type |-> "none", msg |-> ""]
Raise(ty, m) == [type |-> ty, msg |-> m]

\* The classes the script can raise that derive from Exception.
ExceptionClasses ==
    {"OSError", "FileNotFoundError", "PermissionError", "UnicodeDecodeError",
     "JSONDecodeError", "KeyError", "TypeError", "UnicodeEncodeError"}

\* A handler for OSError alone.
CaughtOSError(e) == e.type \in {"OSError", "FileNotFoundError", "PermissionError"}

\* except Exception as e: matches every instance of Exception.
Caught(e) == e.type \in ExceptionClasses

\* open() of a path that is missing or not accessible in the mode asked.
OpenError(file, p, m) ==
    IF ~file.exists /\ (m = "r" \/ file.access # "rw")
    THEN Raise("FileNotFoundError", "[Errno 2] No such file or directory")
    ELSE IF (m = "r" /\ file.access = "none") \/ (m # "r" /\ file.access # "rw")
    THEN Raise("PermissionError", "[Errno 13] Permission denied")
    ELSE NoExc

\* json.load(f): f.read() decodes the bytes as UTF-8, json.loads parses.
json_load(doc) ==
    CASE doc.form = "not_utf8" -> Raise("UnicodeDecodeError", "'utf-8' codec can't decode byte")
      [] doc.form = "json"     -> NoExc
      [] OTHER                 -> Raise("JSONDecodeError", "Expecting value")

\* data["types"]: a dict looks the key up, a list or str rejects a str index,
\* anything else is not subscriptable.
getitem_types(x) ==
    CASE x.t = "dict" /\ x.d.types # Missing -> NoExc
      [] x.t = "dict"                        -> Raise("KeyError", "'types'")
      [] x.t \in {"list", "str"}             -> Raise("TypeError", "indices must be integers")
      [] OTHER                               -> Raise("TypeError", "object is not subscriptable")

\* f.write(x): the text layer takes a str only, and encodes it at once.
write_error(x) ==
    CASE x.t # "str"     -> Raise("TypeError", "write() argument must be str")
      [] ~Encodable(x.s) -> Raise("UnicodeEncodeError", "'utf-8' codec can't encode character")
      [] OTHER           -> NoExc

\* ------------------------------------------------------------------- state
VARIABLES
    fs,             \* the file at each path
    linesep,        \* os.linesep of the platform
    run,            \* number of the current run
    pc,             \* the statement the run is at
    fin,            \* the file object of the first with statement
    fout,           \* the file object of the second with statement
    buffer,         \* bytes written to fout and not yet flushed
    data,           \* the name data
    types_content,  \* the name types_content
    exc,            \* the exception being raised, if any
    stdout,         \* lines printed by the current run
    trace,          \* operations of the current run, in order
    destBefore,     \* the output file when the current run started
    prev            \* the outcome of the previous run

vars == <<fs, linesep, run, pc, fin, fout, buffer, data, types_content, exc,
          stdout, trace, destBefore, prev>>

Event(op, ok) == [op |-> op, ok |-> ok]

Init ==
    /\ fs \in {[p \in Paths |-> IF p = input_path THEN i ELSE o]
                 : i \in InputFiles, o \in OutputFiles}
    /\ linesep \in LineSeps
    /\ run = 1
    /\ pc = "open_in"
    /\ fin = NoFile
    /\ fout = NoFile
    /\ buffer = <<>>
    /\ data = Unbound
    /\ types_content = Missing
    /\ exc = NoExc
    /\ stdout = <<>>
    /\ trace = <<>>
    /\ destBefore = fs[output_path]
    /\ prev = [ran |-> FALSE, ok |-> FALSE, out |-> fs[output_path]]

\* ------------------------------------------------------------------ the run
\* f"Successfully wrote types to {output_path}" and f"Error: {e}".
SuccessLine == <<"Successfully wrote types to ", output_path>>
ErrorLine == <<"Error: ", exc.msg>>

\* Line 9: open(input_path, "r", encoding="utf-8").
OpenInput ==
    /\ pc = "open_in"
    /\ LET e == OpenError(fs[input_path], input_path, "r") IN
       IF e # NoExc
       THEN /\ exc' = e
            /\ pc' = "except"
            /\ trace' = Append(trace, Event("open_in", FALSE))
            /\ fin' = fin
       ELSE /\ fin' = OpenFile(input_path, "r", 0)
            /\ pc' = "load"
            /\ trace' = Append(trace, Event("open_in", TRUE))
            /\ exc' = exc
    /\ UNCHANGED <<fs, linesep, run, fout, buffer, data, types_content, stdout,
                   destBefore, prev>>

\* Line 10: data = json.load(f).  An exception leaves the with block, which
\* closes f.
JsonLoad ==
    /\ pc = "load"
    /\ LET doc == fs[fin.path].doc
           e == json_load(doc) IN
       IF e # NoExc
       THEN /\ exc' = e
            /\ fin' = Closed(fin)
            /\ pc' = "except"
            /\ trace' = trace \o <<Event("load", FALSE), Event("close_in", TRUE)>>
            /\ data' = data
       ELSE /\ data' = doc.value
            /\ pc' = "extract"
            /\ trace' = Append(trace, Event("load", TRUE))
            /\ UNCHANGED <<exc, fin>>
    /\ UNCHANGED <<fs, linesep, run, fout, buffer, types_content, stdout,
                   destBefore, prev>>

\* Line 11 with the second with statement nested in the first: f stays open.
ExtractNested ==
    /\ pc = "extract"
    /\ LET e == getitem_types(data) IN
       IF e # NoExc
       THEN /\ exc' = e
            /\ fin' = Closed(fin)
            /\ pc' = "except"
            /\ trace' = trace \o <<Event("extract", FALSE), Event("close_in", TRUE)>>
            /\ types_content' = types_content
       ELSE /\ types_content' = data.d.types
            /\ pc' = "open_out"
            /\ trace' = Append(trace, Event("extract", TRUE))
            /\ UNCHANGED <<exc, fin>>
    /\ UNCHANGED <<fs, linesep, run, fout, buffer, data, stdout, destBefore, prev>>

\* Line 11 as types_content = data.get("types"): a missing key gives None.
ExtractGet ==
    /\ pc = "extract"
    /\ LET e == getitem_types(data) IN
       IF e # NoExc /\ data.t # "dict"
       THEN /\ exc' = e
            /\ fin' = Closed(fin)
            /\ pc' = "except"
            /\ trace' = trace \o <<Event("extract", FALSE), Event("close_in", TRUE)>>
            /\ types_content' = types_content
       ELSE /\ types_content' = IF data.d.types = Missing THEN PyNone ELSE data.d.types
            /\ pc' = "close_in"
            /\ trace' = Append(trace, Event("extract", TRUE))
            /\ UNCHANGED <<exc, fin>>
    /\ UNCHANGED <<fs, linesep, run, fout, buffer, data, stdout, destBefore, prev>>

\* Line 11 followed by a check that the value is a str.
ExtractChecked ==
    /\ pc = "extract"
    /\ LET e == IF getitem_types(data) = NoExc /\ data.d.types.t # "str"
                THEN Raise("TypeError", "types must be str")
                ELSE getitem_types(data) IN
       IF e # NoExc
       THEN /\ exc' = e
            /\ fin' = Closed(fin)
            /\ pc' = "except"
            /\ trace' = trace \o <<Event("extract", FALSE), Event("close_in", TRUE)>>
            /\ types_content' = types_content
       ELSE /\ types_content' = data.d.types
            /\ pc' = "close_in"
            /\ trace' = Append(trace, Event("extract", TRUE))
            /\ UNCHANGED <<exc, fin>>
    /\ UNCHANGED <<fs, linesep, run, fout, buffer, data, stdout, destBefore, prev>>

\* Line 11: types_content = data["types"].
Extract ==
    /\ pc = "extract"
    /\ LET e == getitem_types(data) IN
       IF e # NoExc
       THEN /\ exc' = e
            /\ fin' = Closed(fin)
            /\ pc' = "except"
            /\ trace' = trace \o <<Event("extract", FALSE), Event("close_in", TRUE)>>
            /\ types_content' = types_content
       ELSE /\ types_content' = data.d.types
            /\ pc' = "close_in"
            /\ trace' = Append(trace, Event("extract", TRUE))
            /\ UNCHANGED <<exc, fin>>
    /\ UNCHANGED <<fs, linesep, run, fout, buffer, data, stdout, destBefore, prev>>

\* The end of the first with block closes f.
CloseInput ==
    /\ pc = "close_in"
    /\ fin' = Closed(fin)
    /\ pc' = "open_out"
    /\ trace' = Append(trace, Event("close_in", TRUE))
    /\ UNCHANGED <<fs, linesep, run, fout, buffer, data, types_content, exc,
                   stdout, destBefore, prev>>

\* Line 13 with the wrong path: open(input_path, "w", encoding="utf-8").
OpenOutputWrongPath ==
    /\ pc = "open_out"
    /\ LET e == OpenError(fs[input_path], input_path, "w") IN
       IF e # NoExc
       THEN /\ exc' = e
            /\ pc' = "except"
            /\ trace' = Append(trace, Event("open_out", FALSE))
            /\ UNCHANGED <<fs, fout>>
       ELSE /\ fs' = [fs EXCEPT ![input_path] = open_w(@)]
            /\ fout' = OpenFile(input_path, "w", 0)
            /\ pc' = "write"
            /\ trace' = Append(trace, Event("open_out", TRUE))
            /\ exc' = exc
    /\ buffer' = <<>>
    /\ UNCHANGED <<linesep, run, fin, data, types_content, stdout, destBefore, prev>>

\* Line 13: open(output_path, "w", encoding="utf-8").
OpenOutput ==
    /\ pc = "open_out"
    /\ LET e == OpenError(fs[output_path], output_path, "w") IN
       IF e # NoExc
       THEN /\ exc' = e
            /\ pc' = "except"
            /\ trace' = Append(trace, Event("open_out", FALSE))
            /\ UNCHANGED <<fs, fout>>
       ELSE /\ fs' = [fs EXCEPT ![output_path] = open_w(@)]
            /\ fout' = OpenFile(output_path, "w", Len(open_w(fs[output_path]).bytes))
            /\ pc' = "write"
            /\ trace' = Append(trace, Event("open_out", TRUE))
            /\ exc' = exc
    /\ buffer' = <<>>
    /\ UNCHANGED <<linesep, run, fin, data, types_content, stdout, destBefore, prev>>

\* Line 14: f.write(types_content).  The text is translated, encoded and
\* buffered; an exception leaves the with block, which closes f with
\* nothing buffered.
Write ==
    /\ pc = "write"
    /\ LET e == write_error(types_content) IN
       IF e # NoExc
       THEN /\ exc' = e
            /\ fout' = Closed(fout)
            /\ pc' = "except"
            /\ trace' = trace \o <<Event("write", FALSE), Event("close_out", TRUE)>>
            /\ buffer' = buffer
       ELSE /\ buffer' = buffer \o text_write(types_content.s, linesep)
            /\ pc' = "close_out"
            /\ trace' = Append(trace, Event("write", TRUE))
            /\ UNCHANGED <<exc, fout>>
    /\ UNCHANGED <<fs, linesep, run, fin, data, types_content, stdout,
                   destBefore, prev>>

\* The end of the second with block flushes the buffer and closes f.  The
\* flush can fail (a full disk, a device error) after any part of the data.
CloseOutput ==
    /\ pc = "close_out"
    /\ fout' = Closed(fout)
    /\ \/ /\ fs' = [fs EXCEPT ![fout.path].bytes = write_at(@, fout.pos, buffer)]
          /\ pc' = "print_ok"
          /\ trace' = Append(trace, Event("close_out", TRUE))
          /\ exc' = exc
       \/ /\ buffer # <<>>
          /\ \E k \in 0..(Len(buffer) - 1) :
                fs' = [fs EXCEPT ![fout.path].bytes =
                                    write_at(@, fout.pos, SubSeq(buffer, 1, k))]
          /\ exc' = Raise("OSError", "[Errno 28] No space left on device")
          /\ pc' = "except"
          /\ trace' = Append(trace, Event("close_out", FALSE))
    /\ buffer' = <<>>
    /\ UNCHANGED <<linesep, run, fin, data, types_content, stdout, destBefore, prev>>

\* Line 16: print(f"Successfully wrote types to {output_path}").
PrintSuccess ==
    /\ pc = "print_ok"
    /\ stdout' = Append(stdout, SuccessLine)
    /\ pc' = "done"
    /\ trace' = Append(trace, Event("print_ok", TRUE))
    /\ UNCHANGED <<fs, linesep, run, fin, fout, buffer, data, types_content, exc,
                   destBefore, prev>>

\* A handler that prints nothing.
HandlerSilent ==
    /\ pc = "except"
    /\ pc' = "done"
    /\ UNCHANGED <<fs, linesep, run, fin, fout, buffer, data, types_content, exc,
                   stdout, trace, destBefore, prev>>

\* A handler that starts over, once.
HandlerRetry ==
    /\ pc = "except"
    /\ IF Cardinality({i \in 1..Len(trace) : ~trace[i].ok}) < 2
       THEN /\ pc' = "open_in"
            /\ stdout' = stdout
            /\ trace' = trace
       ELSE /\ pc' = "done"
            /\ stdout' = Append(stdout, ErrorLine)
            /\ trace' = Append(trace, Event("print_err", TRUE))
    /\ UNCHANGED <<fs, linesep, run, fin, fout, buffer, data, types_content, exc,
                   destBefore, prev>>

\* Lines 18-19: except Exception as e: print(f"Error: {e}").  An exception
\* the clause does not match leaves the script.
Handler ==
    /\ pc = "except"
    /\ IF Caught(exc)
       THEN /\ stdout' = Append(stdout, ErrorLine)
            /\ pc' = "done"
            /\ trace' = Append(trace, Event("print_err", TRUE))
       ELSE /\ pc' = "crashed"
            /\ UNCHANGED <<stdout, trace>>
    /\ UNCHANGED <<fs, linesep, run, fin, fout, buffer, data, types_content, exc,
                   destBefore, prev>>

\* The script printed its success line.
Succeeded == pc = "done" /\ exc = NoExc

\* One step of the script.
Step ==
    \/ OpenInput
    \/ JsonLoad
    \/ Extract
    \/ CloseInput
    \/ OpenOutput
    \/ Write
    \/ CloseOutput
    \/ PrintSuccess
    \/ Handler

\* The script is run again on the files the last run left.
Rerun ==
    /\ pc \in {"done", "crashed"}
    /\ run < MaxRuns
    /\ run' = run + 1
    /\ pc' = "open_in"
    /\ fin' = NoFile
    /\ fout' = NoFile
    /\ buffer' = <<>>
    /\ data' = Unbound
    /\ types_content' = Missing
    /\ exc' = NoExc
    /\ stdout' = <<>>
    /\ trace' = <<>>
    /\ destBefore' = fs[output_path]
    /\ prev' = [ran |-> TRUE, ok |-> Succeeded, out |-> fs[output_path]]
    /\ UNCHANGED <<fs, linesep>>

Next == Step \/ Rerun

Spec == Init /\ [][Next]_vars

\* A started run is never suspended: the interpreter executes the next
\* statement.
LiveSpec == Spec /\ WF_vars(Step)

\* -------------------------------------------------------------- properties
\* The "types" member of the input document (Missing when there is none).
SourceTypes == fs[input_path].doc.value.d.types

\* The input phase cannot complete: the input file cannot be opened, is not
\* valid JSON, is not an object, or has no "types" key.
InputUnusable ==
    LET f == fs[input_path] IN
        \/ ~f.exists
        \/ f.access = "none"
        \/ f.doc.form # "json"
        \/ f.doc.value.t # "dict"
        \/ f.doc.value.d.types = Missing

\* Some operation of the current run failed.
Failed == \E i \in 1..Len(trace) : ~trace[i].ok

\* Event e occurs in the trace before position j.
Before(e, j) == \E i \in 1..(j - 1) : trace[i] = e

\* The place of each operation in the script's text.
Rank(op) ==
    CASE op = "open_in"   -> 1
      [] op = "load"      -> 2
      [] op = "extract"   -> 3
      [] op = "close_in"  -> 4
      [] op = "open_out"  -> 5
      [] op = "write"     -> 6
      [] op = "close_out" -> 7
      [] OTHER            -> 8

\* C1: after a run that completes without raising, the destination file's
\* contents, read back as UTF-8 text, equal the value of the source JSON's
\* "types" field exactly and in full.
C1_ContentsEqualTypes ==
    Succeeded => utf8_decode(fs[output_path].bytes) = SourceTypes.s

\* C2: every failure of a run (input file missing or unreadable, malformed
\* JSON, "types" key missing, write failure) is caught by the handler and
\* yields exactly one "Error: ..." line; the run never ends with an uncaught
\* exception, and the success line is not printed.
C2_FailuresCaught ==
    /\ pc # "crashed"
    /\ (pc = "done" /\ (InputUnusable \/ Failed)) =>
          /\ exc # NoExc
          /\ stdout = <<ErrorLine>>
          /\ \A i \in 1..Len(trace) : trace[i].op # "print_ok"

\* C2 witness: a write failure (the flush at close) was caught and printed.
C2_Witness ==
    /\ pc = "done"
    /\ exc.type = "OSError"
    /\ stdout = <<ErrorLine>>

\* C3: the destination is overwritten, not appended to: after a successful
\* run the file exists and holds the bytes of the "types" string and nothing
\* else, whatever it held before the run.
C3_OnlyTypesString ==
    Succeeded =>
        /\ fs[output_path].exists
        /\ fs[output_path].bytes = utf8_encode(SourceTypes.s)

\* C4: the operations of a run occur in the order of the script's text (open
\* and read the input, parse, extract, open and write the destination,
\* print); the destination is opened only after the field has been extracted
\* and the input file closed; the success line is printed only after the
\* write has completed and the destination has been closed.
C4_LinearOrder ==
    /\ \A i, j \in 1..Len(trace) : i < j => Rank(trace[i].op) < Rank(trace[j].op)
    /\ fout.state # "none" => (types_content # Missing /\ fin.state = "closed")
    /\ \A j \in 1..Len(trace) :
          /\ trace[j].op = "open_out" =>
                (Before(Event("extract", TRUE), j) /\ Before(Event("close_in", TRUE), j))
          /\ trace[j].op = "print_ok" =>
                /\ Before(Event("write", TRUE), j)
                /\ Before(Event("close_out", TRUE), j)
                /\ fout.state = "closed"

\* C4 witness: a run that went through all eight operations.
C4_Witness ==
    /\ Succeeded
    /\ Len(trace) = 8
    /\ trace[8] = Event("print_ok", TRUE)

C6_InputFailureKeepsDest ==
    InputUnusable =>
        /\ fs[output_path] = destBefore
        /\ fout = NoFile
        /\ pc = "done" => exc # NoExc

\* C6 witness: a run on a document without "types" ended, the destination
\* existing with content.
C6_Witness ==
    /\ pc = "done"
    /\ exc.type = "KeyError"
    /\ destBefore.exists
    /\ destBefore.bytes # <<>>

\* "types" is present and its value is not a string, and the destination
\* could be opened for writing when the run started.
NonStringTypes ==
    /\ ~InputUnusable
    /\ SourceTypes.t # "str"
    /\ OpenError(destBefore, output_path, "w") = NoExc

\* C7: when "types" is present and not a string, the value is not checked
\* before the destination is opened: the destination is opened (truncated)
\* first, the write then fails with TypeError, and the run ends with the
\* destination existing and empty and one "Error: ..." line printed.
C7_NonStringTruncates ==
    (NonStringTypes /\ pc = "done") =>
        /\ Before(Event("open_out", TRUE), Len(trace))
        /\ \E j \in 1..Len(trace) :
              trace[j] = Event("write", FALSE) /\ Before(Event("open_out", TRUE), j)
        /\ exc.type = "TypeError"
        /\ fs[output_path].exists
        /\ fs[output_path].bytes = <<>>
        /\ stdout = <<ErrorLine>>

\* C7 witness: such a run ended and the destination's earlier content is
\* gone.
C7_Witness ==
    /\ NonStringTypes
    /\ pc = "done"
    /\ destBefore.exists
    /\ destBefore.bytes # <<>>
    /\ fs[output_path].bytes = <<>>

\* The read, parse, extract and write steps all completed.
AllStepsCompleted ==
    /\ ~Failed
    /\ \A op \in {"open_in", "load", "extract", "open_out", "write", "close_out"} :
          \E i \in 1..Len(trace) : trace[i] = Event(op, TRUE)

\* C8: every run prints exactly one outcome line, the success line or an
\* error line, and then terminates normally; the success line is printed
\* if and only if the read, parse, extract and write steps all completed
\* without a failure.
C8_OneOutcome ==
    /\ [](pc # "crashed")
    /\ [](pc = "done" =>
            /\ Len(stdout) = 1
            /\ stdout[1] \in {SuccessLine, ErrorLine}
            /\ stdout[1] = SuccessLine <=> AllStepsCompleted)
    /\ [](pc # "done" => Len(stdout) = 0)
    /\ (pc = "open_in" ~> pc = "done")

\* C8 witness: a run that failed at the parse ended with one line printed.
C8_Witness ==
    /\ pc = "done"
    /\ exc.type = "JSONDecodeError"
    /\ Len(stdout) = 1

\* C9: no step modifies the input file; the input is opened for reading
\* only, and the only path opened for writing is the destination.
C9_InputNeverModified ==
    [][/\ fs'[input_path] = fs[input_path]
       /\ fin'.state # "none" => (fin'.path = input_path /\ fin'.mode = "r")
       /\ fout'.state # "none" => (fout'.path = output_path /\ fout'.mode = "w")
       /\ fs' # fs => (fout'.state # "none" /\ fs'[output_path] # fs[output_path])]_vars

\* C9 witness: a run wrote the destination and ended.
C9_Witness ==
    /\ Succeeded
    /\ fs[output_path] # destBefore
    /\ fs[input_path].exists
    /\ fin.state = "closed"

\* C10: for an unchanged input, a successful run that follows a successful
\* run leaves the destination as the first left it, and the result of a
\* successful run is a function of the "types" value (and the platform's
\* line separator) alone: not of other keys, not of the destination's prior
\* contents.
C10_Idempotent ==
    /\ (Succeeded /\ prev.ran /\ prev.ok) => fs[output_path] = prev.out
    /\ Succeeded => fs[output_path] = ByteFile(text_write(SourceTypes.s, linesep), "rw")

\* C10 witness: the second of two successful runs ended, with content
\* written.
C10_Witness ==
    /\ Succeeded
    /\ prev.ran
    /\ prev.ok
    /\ fs[output_path].bytes # <<>>

====
